---- MODULE Spec2Model ----
(***************************************************************************)
(* A model of the lightcone prototype (Minkowski-KV): the content-         *)
(* addressed event DAG (src/src/dag.rs, src/src/event.rs), the physics     *)
(* gate that delays messages by d/c (src/src/physics.rs), the simulated    *)
(* replica driver that authors and gossips events (src/src/node.rs,        *)
(* src/src/simulation.rs) and the two networked replicas of the binary     *)
(* (src/src/main.rs, src/src/network.rs, src/src/app.rs), and the causal   *)
(* order of coordinates (src/src/spacetime.rs).                            *)
(*                                                                         *)
(* The specifications of the module share one tuple of variables:          *)
(*   SpecDag      one SpacetimeDAG driven by arbitrary Event::new and      *)
(*                add_event calls;                                         *)
(*   SpecGate     one PhysicsLayer driven by ingest, drain_arrived, a      *)
(*                monotonic clock and set_speed_of_light;                  *)
(*   SpecNode     a cluster of Node tasks, each owning its SpacetimeDAG,   *)
(*                exchanging gossip through Cluster::route_message;        *)
(*   SpecNet      the replicas on ports 5000 and 5001: broadcast, wire     *)
(*                encoding, the receiver's gate and its main loop          *)
(*                (SpecNetFair: with the tick and the clock fair);         *)
(*   SpecWire     SpecNet with clients that send several streams on one    *)
(*                connection;                                              *)
(*   SpecCoord    partial_cmp and interval_sq of spacetime.rs on pairs of  *)
(*                coordinates;                                             *)
(*   SpecOrder    partial_cmp on three coordinates, compared pairwise;     *)
(*   SpecCluster  the delayed delivery of Cluster::route_message           *)
(*                (SpecClusterFair: with the runtime and the clock fair);  *)
(*   SpecLock     a Node and a reader of its DAG behind the Mutex, with    *)
(*                add_event taken statement by statement;                  *)
(*   SpecAuthor   one SpacetimeDAG whose owner builds events on a snapshot *)
(*                of heads and admits them after other events came in.     *)
(***************************************************************************)
EXTENDS Integers, Sequences, FiniteSets, TLC

VARIABLES
    dag,        \* SpecDag: the SpacetimeDAG under test
    pool,       \* SpecAuthor: the events built and not yet admitted;
                \* SpecDag: the events constructed so far by Event::new
    uuid,       \* the number of Uuid::new_v4() values drawn so far
    last,       \* the last call made: its arguments, its result, the state before it
    physics,    \* SpecGate: the PhysicsLayer (buffer, c)
    now,        \* SpecGate: the reading of the monotonic clock Instant::now()
    seq,        \* SpecGate: the number of ingest calls made so far; SpecNet: the
                \* number of connections opened by NetPeerConnect
    released,   \* SpecNet: every packet a drain of a replica's gate returned;
                \* SpecCluster: the set of deliveries made, each with its clock reading;
                \* SpecGate: every packet returned by a drain so far, in order
    dags,       \* SpecNode: node -> the node's SpacetimeDAG
    inflight,   \* SpecNode, SpecCluster: the messages routed by the cluster, not
                \* yet received; SpecNet: the connections open
    authored,   \* SpecNode: the number of create_event commands handled
    ingested,   \* SpecNet: every message a replica's gate accepted;
                \* SpecGate: per ingest call, the clock reading, the deadline set and
                \* the global speed of light at the call
    gates,      \* SpecNet: replica -> the replica's PhysicsLayer
    app_rx,     \* SpecNet: replica -> the Actions queued for the replica's main loop;
                \* SpecCluster: node -> the messages in the node's inbox
    c_cell,     \* the global speed of light of spacetime.rs (m/s)
    tasks       \* SpecLock: the holder of the DAG's Mutex, the position of the
                \* node task and of the reader task, and the node task's locals

vars == <<dag, pool, uuid, last, physics, now, seq, released, dags, inflight, authored,
          ingested, gates, app_rx, c_cell, tasks>>

(***************************************************************************)
(* Bounds of the model.                                                    *)
(***************************************************************************)
\* Event::new calls in SpecDag.
MaxEvents == 3
\* Nodes a SpacetimeDAG may hold in SpecDag, the genesis node included.
MaxNodes == 4

Range(s) == {s[i] : i \in 1..Len(s)}

(***************************************************************************)
(* event.rs                                                                *)
(***************************************************************************)
\* enum Operation; the key and value carried by Put and Delete are opaque to
\* the DAG, the gate and the driver, and are left out.
Operation == {"Put", "Delete", "Merge", "Genesis"}

\* struct SpacetimeCoord {t, x, y, z}.
SpacetimeCoord(t, x, y, z) == [t |-> t, x |-> x, y |-> y, z |-> z]

\* Event::compute_hash: a BLAKE3 digest of (id, parents in ascending order,
\* coords, payload).  The digest is collision resistant, so it is modelled by
\* the hashed content itself: equal content gives an equal hash, different
\* content a different one.
compute_hash(id, parents, coords, payload) == <<id, parents, coords, payload>>

\* Event::new, with `id` the value Uuid::new_v4() returned.
Event_new(id, parents, coords, payload) ==
    [id |-> id, parents |-> parents, coords |-> coords, payload |-> payload,
     hash |-> compute_hash(id, parents, coords, payload)]

(***************************************************************************)
(* dag.rs                                                                  *)
(***************************************************************************)
\* StableDiGraph::add_node: the new node takes the next NodeIndex (0-based);
\* graph.nodes[i + 1] is the weight of NodeIndex i.
add_node(graph, event) ==
    [graph EXCEPT !.nodes = Append(graph.nodes, event)]

\* DashMap::insert: sets or overwrites the entry of `hash`.
index_insertSkip(index_map, hash, node) == index_map
index_insert(index_map, hash, node) ==
    [h \in DOMAIN index_map \cup {hash} |->
        IF h = hash THEN node ELSE index_map[h]]

\* dag.rs 115-119: some parent of the event is not in index_map.
MissingParentMut(d, event) == FALSE
MissingParent(d, event) ==
    \E parent \in event.parents : parent \notin DOMAIN d.index_map

\* dag.rs 121-123: the node is added and the index entry set.
InsertNode(d, event) ==
    LET node == Len(d.graph.nodes)
    IN  [d EXCEPT !.graph = add_node(d.graph, event),
                  !.index_map = index_insert(d.index_map, event.hash, node)]

\* dag.rs 125-130: one edge from the new node to each parent the index holds.
AddParentEdgesNone(d, node) == d
AddParentEdgesReversed(d, node) ==
    LET parents == d.graph.nodes[node + 1].parents
    IN  [d EXCEPT !.graph.edges = d.graph.edges \cup
            {<<d.index_map[p], node>> : p \in parents \cap DOMAIN d.index_map}]
AddParentEdges(d, node) ==
    LET parents == d.graph.nodes[node + 1].parents
    IN  [d EXCEPT !.graph.edges = d.graph.edges \cup
            {<<node, d.index_map[p]>> : p \in parents \cap DOMAIN d.index_map}]

\* dag.rs 132-133: heads.retain(not a parent of the event); heads.push(hash).
UpdateHeadsClear(heads, event) == <<event.hash>>
UpdateHeadsNoRetain(heads, event) == Append(heads, event.hash)
UpdateHeads(heads, event) ==
    Append(SelectSeq(heads, LAMBDA h : h \notin event.parents), event.hash)

\* SpacetimeDAG::add_event: the DAG after the call and the call's result.
add_event(d, event) ==
    IF MissingParent(d, event)
    THEN [dag |-> d, res |-> "MissingParent"]
    ELSE LET node == Len(d.graph.nodes)
             d1 == InsertNode(d, event)
             d2 == AddParentEdges(d1, node)
         IN  [dag |-> [d2 EXCEPT !.heads = UpdateHeads(d.heads, event)],
              res |-> "Ok"]

\* The genesis event SpacetimeDAG::new builds, `id` being its fresh Uuid.
Genesis(id) == Event_new(id, {}, SpacetimeCoord(0, 0, 0, 0), "Genesis")

\* SpacetimeDAG::new.
SpacetimeDAG_newNoHead(id) ==
    LET genesis == Genesis(id)
    IN  [graph |-> [nodes |-> <<genesis>>, edges |-> {}],
         index_map |-> [h \in {genesis.hash} |-> 0],
         heads |-> <<>>]
SpacetimeDAG_new(id) ==
    LET genesis == Genesis(id)
    IN  [graph |-> [nodes |-> <<genesis>>, edges |-> {}],
         index_map |-> [h \in {genesis.hash} |-> 0],
         heads |-> <<genesis.hash>>]

(***************************************************************************)
(* physics.rs                                                              *)
(***************************************************************************)
\* main.rs 73: the speed of light the gate is built with, in m/s.
SPEED_OF_LIGHT == 100
\* spacetime.rs 9: the physical speed of light, the initial value of the
\* global setting.
DEFAULT_C == 299792458

\* impl PartialOrd for PendingPacket (physics.rs 28-33): a <= b in the
\* reversed order, i.e. a is due no earlier than b.
PacketLeNotReversed(a, b) == a.available_at <= b.available_at
PacketLe(a, b) == b.available_at <= a.available_at

\* `data` with the elements at the 0-based positions i and j exchanged.
Swap(data, i, j) ==
    [data EXCEPT ![i + 1] = data[j + 1], ![j + 1] = data[i + 1]]

\* usize::saturating_sub.
saturating_sub(a, b) == IF a >= b THEN a - b ELSE 0

\* BinaryHeap::sift_up(start, pos), as called by physics.rs 85 and 97: the
\* element at pos moves up while it is greater than its parent.
RECURSIVE sift_up(_, _, _)
sift_up(data, start, pos) ==
    IF pos > start
    THEN LET parent == (pos - 1) \div 2
         IN  IF PacketLe(data[pos + 1], data[parent + 1])
             THEN data
             ELSE sift_up(Swap(data, pos, parent), start, parent)
    ELSE data

\* BinaryHeap::sift_down_to_bottom(0), as called by physics.rs 97: the
\* element at the root moves down to a leaf, each time below the greater
\* child (the right one on a tie), and is then sifted up.
RECURSIVE sift_down_to_bottom(_, _)
sift_down_to_bottom(data, pos) ==
    LET end == Len(data)
        child == 2 * pos + 1
    IN  IF child <= saturating_sub(end, 2)
        THEN LET c == IF PacketLe(data[child + 1], data[child + 2])
                      THEN child + 1 ELSE child
             IN  sift_down_to_bottom(Swap(data, pos, c), c)
        ELSE IF child = end - 1
             THEN sift_up(Swap(data, pos, child), 0, child)
             ELSE sift_up(data, 0, pos)

\* BinaryHeap::push (physics.rs 85).
BinaryHeap_push(data, item) == sift_up(Append(data, item), 0, Len(data))

\* BinaryHeap::pop on a non-empty heap (physics.rs 97): the root is returned,
\* the last element replaces it and is sifted down.
BinaryHeap_pop(data) ==
    LET item == data[Len(data)]
        rest == SubSeq(data, 1, Len(data) - 1)
    IN  IF rest = <<>>
        THEN [item |-> item, data |-> rest]
        ELSE [item |-> rest[1],
              data |-> sift_down_to_bottom([rest EXCEPT ![1] = item], 0)]

\* PhysicsLayer::new.
PhysicsLayer_new(c) == [buffer |-> <<>>, c |-> c]

\* The f64 values the model tells apart: finite values (whole numbers of
\* seconds or meters; the sign of a zero is not kept, since the code treats
\* 0.0 and -0.0 alike after the clamp), the infinities and NaN, the last two
\* with their sign bit in v (1 or -1).
Fin(n) == [kind |-> "fin", v |-> n]
Inf(sign) == [kind |-> "inf", v |-> sign]
NaN(sign) == [kind |-> "nan", v |-> sign]

\* physics.rs 83: dist / self.c for a finite c, as the set of values the
\* division may produce.  The sign bit of a NaN result is not determined.
\* The model's finite distances are multiples of |c|, so a finite quotient
\* is exact.
fdiv(a, c) ==
    CASE a.kind = "nan" -> {NaN(1), NaN(-1)}
      [] a.kind = "inf" -> IF c < 0 THEN {Inf(0 - a.v)} ELSE {Inf(a.v)}
      [] OTHER ->
            IF c = 0
            THEN IF a.v = 0 THEN {NaN(1), NaN(-1)}
                 ELSE IF a.v > 0 THEN {Inf(1)} ELSE {Inf(-1)}
            ELSE IF c > 0 THEN {Fin(a.v \div c)}
                 ELSE {Fin((0 - a.v) \div (0 - c))}

\* f64::is_sign_negative: the sign bit, also of an infinity and of a NaN.
is_sign_negative(f) == f.v < 0

\* physics.rs 83-84: dist / c, a quotient with the sign bit set replaced by
\* 0.0; the set of values delay may take.
Delay(dist, c) ==
    {IF is_sign_negative(delay) THEN Fin(0) ELSE delay : delay \in fdiv(dist, c)}

\* Duration::from_secs_f64 (physics.rs 85): panics on a negative, infinite
\* or NaN argument.
from_secs_f64(secs) ==
    IF secs.kind = "fin" /\ secs.v >= 0
    THEN [res |-> "Ok", secs |-> secs.v]
    ELSE [res |-> "panic", secs |-> 0]

\* PhysicsLayer::ingest at clock reading t: the outcomes the call may have,
\* each with the gate after it.  A panic unwinds before buffer.push.
ingest(p, msg, dist, t) ==
    {LET d == from_secs_f64(delay)
         available_at == t + d.secs
     IN  IF d.res = "panic"
         THEN [physics |-> p, res |-> "panic"]
         ELSE [physics |-> [p EXCEPT !.buffer =
                   BinaryHeap_push(p.buffer,
                       [available_at |-> available_at, msg |-> msg])],
               res |-> "Ok"] : delay \in Delay(dist, p.c)}

\* physics.rs 96: the packet on top of the heap is due at clock reading t.
ArrivedAlways(top, t) == TRUE
ArrivedStrict(top, t) == top.available_at < t
Arrived(top, t) == top.available_at <= t

\* PhysicsLayer::drain at clock reading t: the gate after the call and the
\* packets popped, in the order popped.
RECURSIVE drain_loop(_, _, _)
drain_loop(buffer, ready, t) ==
    IF buffer # <<>> /\ Arrived(buffer[1], t)
    THEN LET r == BinaryHeap_pop(buffer)
         IN  drain_loop(r.data, Append(ready, r.item), t)
    ELSE [buffer |-> buffer, ready |-> ready]

drain(p, t) ==
    LET r == drain_loop(p.buffer, <<>>, t)
    IN  [physics |-> [p EXCEPT !.buffer = r.buffer], ready |-> r.ready]

\* PhysicsLayer::drain_arrived.
drain_arrived(p, t) == drain(p, t)

(***************************************************************************)
(* SpecDag: one SpacetimeDAG, events built by Event::new and presented to  *)
(* add_event in any order, any number of times.                            *)
(***************************************************************************)
\* The coordinates and payloads the callers of SpecDag author events with.
\* add_event reads neither, so one of each is enough; the events differ by
\* their id and their parents.
DagCoords == {SpacetimeCoord(0, 0, 0, 0)}
DagPayloads == {"Put"}

\* The state of the variables a specification does not use.
IdleDag ==
    /\ dag = SpacetimeDAG_new(0)
    /\ pool = {}
IdleGate ==
    /\ physics = PhysicsLayer_new(SPEED_OF_LIGHT)
    /\ now = 0
    /\ seq = 0
    /\ released = <<>>
    /\ ingested = <<>>
IdleNode ==
    /\ dags = <<>>
    /\ inflight = {}
    /\ authored = 0
IdleNet ==
    /\ gates = <<>>
    /\ app_rx = <<>>
IdleLight ==
    /\ c_cell = DEFAULT_C
IdleTasks ==
    /\ tasks = <<>>

InitDag ==
    /\ dag = SpacetimeDAG_new(0)
    /\ pool = {Genesis(0)}
    /\ uuid = 1
    /\ last = [op |-> "new", event |-> Genesis(0), res |-> "Ok",
               pre |-> SpacetimeDAG_new(0)]
    /\ IdleGate
    /\ IdleNode
    /\ IdleNet
    /\ IdleLight
    /\ IdleTasks

\* A caller builds an event with Event::new; its parents are any hashes the
\* caller has seen.
DagEventNew(parents, coords, payload) ==
    /\ uuid <= MaxEvents
    /\ pool' = pool \cup {Event_new(uuid, parents, coords, payload)}
    /\ uuid' = uuid + 1
    /\ UNCHANGED <<dag, last, physics, now, seq, released, dags, inflight, authored,
                   ingested, gates, app_rx, c_cell, tasks>>

\* A caller presents an event to dag.add_event.
DagAddEvent(event) ==
    /\ MissingParent(dag, event) \/ Len(dag.graph.nodes) < MaxNodes
    /\ LET r == add_event(dag, event)
       IN  /\ dag' = r.dag
           /\ last' = [op |-> "add_event", event |-> event, res |-> r.res,
                       pre |-> dag]
    /\ UNCHANGED <<pool, uuid, physics, now, seq, released, dags, inflight, authored,
                   ingested, gates, app_rx, c_cell, tasks>>

NextDag ==
    \/ \E parents \in SUBSET {e.hash : e \in pool}, coords \in DagCoords,
          payload \in DagPayloads : DagEventNew(parents, coords, payload)
    \/ \E event \in pool : DagAddEvent(event)

SpecDag == InitDag /\ [][NextDag]_vars

(***************************************************************************)
(* Claims about the DAG, checked under SpecDag.                            *)
(***************************************************************************)
\* The hashes of d that no resident event lists among its parents.
Unparented(d) ==
    {h \in DOMAIN d.index_map :
        \A e \in Range(d.graph.nodes) : h \notin e.parents}

\* last is an add_event call.
Added == last.op = "add_event"

\* C1: head correctness: the set of hashes in heads is exactly the set of
\* resident hashes that no resident event lists among its parents.
C1_HeadCorrectness == Range(dag.heads) = Unparented(dag)

\* C2: idempotent re-admission: add_event of an event whose hash is already
\* in the index leaves nodes, edges, index and heads unchanged.
C2_IdempotentReadmission ==
    (Added /\ last.event.hash \in DOMAIN last.pre.index_map) => dag = last.pre

\* C3: add_event of an event with a parent hash absent from the index
\* returns MissingParent and leaves graph, index and heads as they were.
C3_MissingParentNoChange ==
    (Added /\ \E p \in last.event.parents : p \notin DOMAIN last.pre.index_map)
        => (last.res = "MissingParent" /\ dag = last.pre)

\* An add_event call was rejected: a parent of the event was not resident.
C3_Witness ==
    /\ Added
    /\ last.res = "MissingParent"
    /\ last.event.parents \cap DOMAIN last.pre.index_map # {}
    /\ Len(last.pre.graph.nodes) > 1

\* C4: monotonic growth: an add_event call keeps every index entry (the
\* hash and the node it designates), every node and every edge.
C4_MonotonicGrowth ==
    Added =>
        /\ \A h \in DOMAIN last.pre.index_map :
              h \in DOMAIN dag.index_map /\ dag.index_map[h] = last.pre.index_map[h]
        /\ SubSeq(dag.graph.nodes, 1, Len(last.pre.graph.nodes)) = last.pre.graph.nodes
        /\ last.pre.graph.edges \subseteq dag.graph.edges

\* Two distinct events whose parents are resident in d, neither a parent of
\* the other.  Events built by Event::new differ in their id; the pair is
\* taken once, A being the one with the smaller id.
Concurrent(d, A, B) ==
    /\ A.id < B.id
    /\ A.hash # B.hash
    /\ A.parents \subseteq DOMAIN d.index_map
    /\ B.parents \subseteq DOMAIN d.index_map
    /\ A.hash \notin B.parents
    /\ B.hash \notin A.parents

\* C8: concurrent admits commute on the frontier: A then B and B then A both
\* succeed, give the same resident set and the same set of heads, with A and
\* B in heads; from heads = {genesis}, two events that parent only genesis
\* leave exactly two heads.
C8_ConcurrentAdmitsCommute ==
    \A A, B \in pool :
        Concurrent(dag, A, B) =>
            LET a == add_event(dag, A)
                ab == add_event(a.dag, B)
                b == add_event(dag, B)
                ba == add_event(b.dag, A)
                G == dag.graph.nodes[1].hash
            IN  /\ a.res = "Ok" /\ ab.res = "Ok" /\ b.res = "Ok" /\ ba.res = "Ok"
                /\ DOMAIN ab.dag.index_map = DOMAIN ba.dag.index_map
                /\ Range(ab.dag.graph.nodes) = Range(ba.dag.graph.nodes)
                /\ Range(ab.dag.heads) = Range(ba.dag.heads)
                /\ {A.hash, B.hash} \subseteq Range(ab.dag.heads)
                /\ (Range(dag.heads) = {G} /\ A.parents = {G} /\ B.parents = {G})
                      => (Len(ab.dag.heads) = 2 /\ Len(ba.dag.heads) = 2)

\* Two events that both parent only genesis have been admitted to a fresh
\* DAG, one after the other, and are the two heads.
C8_Witness ==
    /\ Added
    /\ Len(dag.graph.nodes) = 3
    /\ Len(dag.heads) = 2
    /\ \A i \in 2..3 : dag.graph.nodes[i].parents = {dag.graph.nodes[1].hash}
    /\ Range(dag.heads) = {dag.graph.nodes[2].hash, dag.graph.nodes[3].hash}
    /\ Concurrent(last.pre, dag.graph.nodes[2], dag.graph.nodes[3])

\* C9: merge collapses the frontier: admitting an event whose parent set is
\* exactly the set of current heads leaves heads = [that event's hash].
C9_MergeCollapsesFrontier ==
    (Added /\ last.event.parents = Range(last.pre.heads))
        => (last.res = "Ok" /\ dag.heads = <<last.event.hash>>)

\* An event whose parents are the two current heads has been admitted.
C9_Witness ==
    /\ Added
    /\ last.res = "Ok"
    /\ last.event.parents = Range(last.pre.heads)
    /\ Cardinality(Range(last.pre.heads)) = 2

\* C11: a successful add_event(e) inserts one node for e, adds one edge from
\* e to each of its parents, removes from heads every hash in e.parents,
\* keeps the other heads in their order and appends e.hash as the last head.
C11_SuccessfulAdmit ==
    (Added /\ last.res = "Ok") =>
        LET pre == last.pre
            e == last.event
            node == Len(pre.graph.nodes)
            added == dag.graph.edges \ pre.graph.edges
        IN  /\ dag.graph.nodes = Append(pre.graph.nodes, e)
            /\ pre.graph.edges \subseteq dag.graph.edges
            /\ \A edge \in added : edge[1] = node
            /\ {dag.graph.nodes[edge[2] + 1].hash : edge \in added} = e.parents
            /\ Cardinality(added) = Cardinality(e.parents)
            /\ dag.heads =
                  SelectSeq(pre.heads, LAMBDA h : h \notin e.parents) \o <<e.hash>>

\* An event with two parents was admitted while another head, which it does
\* not parent, stays in heads before it.
C11_Witness ==
    /\ Added
    /\ last.res = "Ok"
    /\ Cardinality(last.event.parents) = 2
    /\ Len(last.pre.heads) = 2
    /\ Len(dag.heads) = 2
    /\ dag.heads[1] = last.pre.heads[2]

\* C12: SpacetimeDAG::new yields a DAG whose index holds exactly the genesis
\* event, with coordinates (0,0,0,0), payload Genesis and no parents, whose
\* graph has no edges and whose heads is [genesis.hash].
C12_NewDag ==
    last.op = "new" =>
        /\ Len(dag.graph.nodes) = 1
        /\ dag.graph.nodes[1].coords = [t |-> 0, x |-> 0, y |-> 0, z |-> 0]
        /\ dag.graph.nodes[1].payload = "Genesis"
        /\ dag.graph.nodes[1].parents = {}
        /\ DOMAIN dag.index_map = {dag.graph.nodes[1].hash}
        /\ dag.index_map[dag.graph.nodes[1].hash] = 0
        /\ dag.graph.edges = {}
        /\ dag.heads = <<dag.graph.nodes[1].hash>>

\* The DAG as SpacetimeDAG::new left it: no add_event call has been made,
\* while callers have already built events on the genesis hash.
C12_Witness ==
    /\ last.op = "new"
    /\ \E e \in pool : e.parents = {dag.heads[1]}

\* The hashes reachable from the hashes H through the parents of the
\* resident events of d, in at most k steps.
RECURSIVE TransitiveParents(_, _, _)
TransitiveParents(d, H, k) ==
    LET P == UNION {e.parents : e \in {x \in Range(d.graph.nodes) : x.hash \in H}}
    IN  IF k = 0 \/ P = {} THEN {} ELSE P \cup TransitiveParents(d, P, k - 1)

\* C13: acyclicity: no resident event is among its own transitive parents;
\* every edge of the stored graph goes from a node to a node inserted
\* strictly earlier, so the graph has no directed cycle, also after an
\* already resident event is presented again.
C13_Acyclic ==
    /\ \A e \in Range(dag.graph.nodes) :
          e.hash \notin TransitiveParents(dag, {e.hash}, Len(dag.graph.nodes))
    /\ \A edge \in dag.graph.edges : edge[2] < edge[1]
    /\ Added =>
          \A edge \in dag.graph.edges \ last.pre.graph.edges :
              edge[1] = Len(last.pre.graph.nodes) /\ edge[2] < edge[1]

\* A resident event was presented again and admitted: its second node has
\* an edge to its parent, and the graph holds a path of two edges.
C13_Witness ==
    /\ Added
    /\ last.res = "Ok"
    /\ last.event.hash \in DOMAIN last.pre.index_map
    /\ last.event.parents # {}
    /\ \E e1, e2 \in dag.graph.edges : e1[2] = e2[1]

\* C14: parent completeness: an event is admitted only if every hash in its
\* parents is in the index, so every parent hash of every resident event is
\* resident.
C14_ParentCompleteness ==
    /\ \A e \in Range(dag.graph.nodes) : e.parents \subseteq DOMAIN dag.index_map
    /\ (Added /\ last.res = "Ok") =>
          last.event.parents \subseteq DOMAIN last.pre.index_map

\* An event with two resident parents was admitted to a DAG that, at the
\* call, lacked a parent of another event callers had built.
C14_Witness ==
    /\ Added
    /\ last.res = "Ok"
    /\ Cardinality(last.event.parents) = 2
    /\ \E e \in pool : ~(e.parents \subseteq DOMAIN last.pre.index_map)

\* C32: in every state reachable from SpacetimeDAG::new by add_event calls,
\* heads is non-empty and every hash in heads is in the index.
C32_HeadsResident ==
    /\ dag.heads # <<>>
    /\ \A i \in DOMAIN dag.heads : dag.heads[i] \in DOMAIN dag.index_map

\* An admit has left two different heads in a DAG of three nodes or more.
C32_Witness ==
    /\ Added
    /\ last.res = "Ok"
    /\ Cardinality(Range(dag.heads)) = 2
    /\ Len(dag.graph.nodes) >= 3

(***************************************************************************)
(* SpecGate: one PhysicsLayer; messages are ingested and the gate drained  *)
(* at any reading of a clock that never runs backwards.                    *)
(***************************************************************************)
\* ingest calls made.
MaxMsgs == 3
\* The last reading of the clock.
MaxTime == 2

\* The separations handed to ingest, in meters: negative, zero, one and
\* two seconds of light travel at SPEED_OF_LIGHT, infinite, and NaN.
Dists ==
    {Fin(0 - SPEED_OF_LIGHT), Fin(0), Fin(SPEED_OF_LIGHT),
     Fin(2 * SPEED_OF_LIGHT), Inf(1), NaN(1)}

\* The speeds given to set_speed_of_light, in m/s.
Lights == {1, 2}

\* The speed set_speed_of_light is given while the gate runs: half the
\* speed main.rs builds the gate with.
KnobSpeeds == {SPEED_OF_LIGHT \div 2}

\* The speeds of light PhysicsLayer::new is called with: the one main.rs
\* uses, zero, and a negative one.
Speeds == {SPEED_OF_LIGHT, 0, 0 - SPEED_OF_LIGHT}

InitGate ==
    /\ \E c \in Speeds : physics = PhysicsLayer_new(c)
    /\ now = 0
    /\ seq = 0
    /\ released = <<>>
    /\ ingested = <<>>
    /\ last = [op |-> "new", ready |-> <<>>, res |-> "Ok", at |-> 0,
               dist |-> Fin(0)]
    /\ uuid = 0
    /\ IdleDag
    /\ IdleNode
    /\ IdleNet
    /\ IdleLight
    /\ IdleTasks

\* Instant::now() advances.
GateTick ==
    /\ now < MaxTime
    /\ now' = now + 1
    /\ UNCHANGED <<physics, seq, released, last, dag, pool, uuid, dags, inflight, authored,
                   ingested, gates, app_rx, c_cell, tasks>>

\* The deadline the buffer of gate p holds for message msg; -1 if none.
Deadline(p, msg) ==
    LET pkts == {pkt \in Range(p.buffer) : pkt.msg = msg}
    IN  IF pkts = {} THEN 0 - 1 ELSE (CHOOSE pkt \in pkts : TRUE).available_at

\* physics.ingest(msg, dist); the message is identified by the number of the
\* ingest call that brought it.
GateIngest(dist) ==
    /\ seq < MaxMsgs
    /\ seq' = seq + 1
    /\ \E r \in ingest(physics, seq + 1, dist, now) :
          /\ physics' = r.physics
          /\ last' = [op |-> "ingest", ready |-> <<>>, res |-> r.res,
                      at |-> now, dist |-> dist]
          /\ ingested' = Append(ingested,
                [at |-> now, due |-> Deadline(r.physics, seq + 1),
                 c_cell |-> c_cell])
    /\ UNCHANGED <<now, released, dag, pool, uuid, dags, inflight, authored,
                   gates, app_rx, c_cell, tasks>>

\* physics.drain_arrived(); every packet returned is recorded with the clock
\* reading of the call.
GateDrain ==
    LET r == drain_arrived(physics, now)
    IN  /\ physics' = r.physics
        /\ released' = released \o
              [i \in 1..Len(r.ready) |-> [pkt |-> r.ready[i], at |-> now]]
        /\ last' = [op |-> "drain", ready |-> r.ready, res |-> "Ok",
                    at |-> now, dist |-> Fin(0)]
        /\ UNCHANGED <<now, seq, dag, pool, uuid, dags, inflight, authored,
                       ingested, gates, app_rx, c_cell, tasks>>

\* set_speed_of_light(c) (spacetime.rs 30-34): the global setting changes;
\* the gate keeps the c it was built with (physics.rs 59-74).
GateSetSpeedReschedule(c) ==
    /\ c # c_cell
    /\ c_cell' = c
    /\ physics' = [physics EXCEPT !.buffer =
          [i \in DOMAIN physics.buffer |->
              [physics.buffer[i] EXCEPT !.available_at = @ + 1]]]
    /\ UNCHANGED <<now, seq, released, last, dag, pool, uuid, dags, inflight,
                   authored, ingested, gates, app_rx, tasks>>
GateSetSpeed(c) ==
    /\ c # c_cell
    /\ c_cell' = c
    /\ UNCHANGED <<physics, now, seq, released, last, dag, pool, uuid, dags,
                   inflight, authored, ingested, gates, app_rx, tasks>>

NextGate ==
    \/ GateTick
    \/ \E dist \in Dists : GateIngest(dist)
    \/ GateDrain
    \/ \E c \in KnobSpeeds : GateSetSpeed(c)

SpecGate == InitGate /\ [][NextGate]_vars

(***************************************************************************)
(* Claims about the gate, checked under SpecGate.                          *)
(***************************************************************************)
\* C5: no early release: every message a drain_arrived call executed at
\* instant T returned has available_at <= T.
C5_NoEarlyRelease ==
    \A i \in 1..Len(released) : released[i].pkt.available_at <= released[i].at

\* A drain has returned a message that had to wait in the buffer, while
\* another message, due later, stays buffered.
C5_Witness ==
    /\ last.op = "drain"
    /\ \E i \in 1..Len(last.ready) : last.ready[i].available_at = now /\ now > 0
    /\ \E i \in 1..Len(physics.buffer) : physics.buffer[i].available_at > now

\* C6: gate monotonicity: a message released before another one, in the same
\* drain or in an earlier one, has a deadline no later than the other's.
C6_GateMonotonicity ==
    \A i, j \in 1..Len(released) :
        i < j => released[i].pkt.available_at <= released[j].pkt.available_at

\* One drain has returned two messages with different deadlines, ingested
\* in the order opposite to their deadlines, after an earlier drain had
\* returned another message.
C6_Witness ==
    /\ last.op = "drain"
    /\ Len(last.ready) >= 2
    /\ Len(released) > Len(last.ready)
    /\ \E i, j \in 1..Len(last.ready) :
          /\ i < j
          /\ last.ready[i].available_at < last.ready[j].available_at
          /\ last.ready[i].msg > last.ready[j].msg

\* C7: FIFO on ties: two messages with identical deadlines are released in
\* the order in which they were ingested.
C7_FifoOnTies ==
    \A i, j \in 1..Len(released) :
        (i < j /\ released[i].pkt.available_at = released[j].pkt.available_at)
            => released[i].pkt.msg < released[j].pkt.msg

\* The messages buffered in gate p, and the messages released so far.
Buffered(p) == {pkt.msg : pkt \in Range(p.buffer)}
Released == {released[i].pkt.msg : i \in 1..Len(released)}

\* C15: drain_arrived executed at instant T removes and returns every
\* buffered message with available_at <= T, in ascending deadline order, and
\* leaves buffered exactly the messages with available_at > T; a message
\* ingested with delay d > 0 is not returned by a drain at its ingest
\* instant, and is returned by the first drain at or after ingest time + d.
C15_DrainExact ==
    /\ \A i, j \in 1..Len(released) : i # j => released[i].pkt.msg # released[j].pkt.msg
    /\ \A i \in 1..Len(released) :
          LET m == released[i].pkt.msg
          IN  /\ released[i].pkt.available_at = ingested[m].due
              /\ released[i].at >= ingested[m].due
              /\ ingested[m].due > ingested[m].at => released[i].at > ingested[m].at
    /\ last.op = "drain" =>
          LET T == last.at
              scheduled == {m \in 1..Len(ingested) : ingested[m].due >= 0}
              before == Len(released) - Len(last.ready)
          IN  /\ Released = {m \in scheduled : ingested[m].due <= T}
              /\ Buffered(physics) = {m \in scheduled : ingested[m].due > T}
              /\ Len(physics.buffer) = Cardinality(Buffered(physics))
              /\ \A i \in 1..Len(last.ready) :
                    /\ released[before + i].pkt = last.ready[i]
                    /\ released[before + i].at = T
              /\ \A i, j \in 1..Len(last.ready) :
                    i < j => last.ready[i].available_at <= last.ready[j].available_at

\* A drain has returned two messages that had waited for different
\* deadlines, the later of them due exactly at the instant of the drain,
\* and has left buffered a message ingested at that same instant with a
\* positive delay.
C15_Witness ==
    /\ last.op = "drain"
    /\ \E i, j \in 1..Len(last.ready) :
          /\ last.ready[i].available_at < last.ready[j].available_at
          /\ last.ready[j].available_at = last.at
          /\ ingested[last.ready[j].msg].at < last.at
    /\ \E m \in Buffered(physics) :
          ingested[m].at = last.at /\ ingested[m].due > last.at

\* C30: a message's deadline is fixed at ingest: the speed of light used for
\* its delay is the one in effect in the gate when ingest runs, and changing
\* the speed-of-light setting between ingest and a later drain_arrived
\* changes neither the available_at of a buffered message nor the drain at
\* which it is released.
C30_DeadlineFixedAtIngest ==
    /\ \A pkt \in Range(physics.buffer) :
          pkt.available_at = ingested[pkt.msg].due
    /\ (last.op = "ingest" /\ last.res = "Ok") =>
          ingested[seq].due \in
              {last.at + from_secs_f64(delay).secs :
                  delay \in Delay(last.dist, physics.c)}
    /\ \A i \in 1..Len(released) :
          released[i].pkt.available_at = ingested[released[i].pkt.msg].due
    /\ last.op = "drain" =>
          Released = {m \in 1..Len(ingested) :
                         ingested[m].due >= 0 /\ ingested[m].due <= last.at}

\* A drain has returned, at its deadline, a message that waited in the
\* buffer while the speed-of-light setting was changed.
C30_Witness ==
    /\ last.op = "drain"
    /\ \E i \in 1..Len(last.ready) :
          /\ ingested[last.ready[i].msg].c_cell # c_cell
          /\ last.ready[i].available_at = last.at
          /\ ingested[last.ready[i].msg].at < last.at

\* C16: ingest(msg, dist) schedules msg with available_at = now + max(0,
\* dist) / c: for dist >= 0 the deadline is the ingest instant plus dist / c;
\* for a negative or NaN dist the message is due at the ingest instant and
\* is returned by the next drain_arrived.  (Stated for a positive c.)
C16_IngestDeadline ==
    /\ (last.op = "ingest" /\ physics.c > 0 /\ last.dist.kind # "inf") =>
          LET dist == last.dist
              expected == IF dist.kind = "fin" /\ dist.v >= 0
                          THEN last.at + (dist.v \div physics.c)
                          ELSE last.at
          IN  /\ last.res = "Ok"
              /\ Deadline(physics, seq) = expected
    /\ last.op = "drain" =>
          \A m \in 1..Len(ingested) :
              (ingested[m].due = ingested[m].at) => m \in Released

\* C17: the gate never errors: for every dist handed to ingest and every
\* speed of light the gate was configured with, ingest and drain_arrived
\* complete normally.
C17_GateNeverErrors ==
    last.op \in {"ingest", "drain"} => last.res = "Ok"

(***************************************************************************)
(* node.rs, simulation.rs                                                  *)
(***************************************************************************)
\* The nodes registered with the cluster.
NumNodes == 2
Nodes == 1..NumNodes
\* create_event commands handled, over all nodes.
MaxAuthored == 2

\* node.peers: every other node of the cluster.
Peers(n) == Nodes \ {n}

\* The coordinates a CreateEvent command sent to node n carries, and the
\* payloads it carries.
CommandCoords(n) == SpacetimeCoord(0, 1000 * (n - 1), 0, 0)
CommandPayloads == {"Put", "Delete"}

\* The sequences that list every element of S once.
Orderings(S) ==
    {o \in [1..Cardinality(S) -> S] : \A i, j \in DOMAIN o : i # j => o[i] # o[j]}

\* node.rs 101-108: the resident events of the parents, in the iteration
\* order of the BTreeSet.  The set iterates in ascending order of the BLAKE3
\* digests, which is unrelated to the events' content: `order` is that order.
Ancestors(d, order) ==
    LET kept == SelectSeq(order, LAMBDA h : h \in DOMAIN d.index_map)
    IN  [i \in 1..Len(kept) |-> d.graph.nodes[d.index_map[kept[i]] + 1]]

\* simulation.rs 45-72 (Cluster::route_message) for each peer of node.rs
\* 124-135: one message per peer, which a spawned task sends to the peer's
\* inbox after the light delay.
Gossip(sender, gossip_events) ==
    {[sender |-> sender, receiver |-> peer, payload |-> gossip_events] :
        peer \in Peers(sender)}

\* node.rs 143-149: add_event on each event of the batch in turn; the DAG
\* after the batch and the result of each call.
RECURSIVE AddAll(_, _, _)
AddAll(d, events, results) ==
    IF events = <<>>
    THEN [dag |-> d, results |-> results]
    ELSE LET r == add_event(d, Head(events))
         IN  AddAll(r.dag, Tail(events), Append(results, r.res))

(***************************************************************************)
(* SpecNode: a cluster of nodes, each built by Node::new with its own      *)
(* SpacetimeDAG; commands and inbox messages are handled one at a time by  *)
(* each node's run loop, messages in flight arrive in any order.           *)
(***************************************************************************)
InitNode ==
    /\ dags = [n \in Nodes |-> SpacetimeDAG_new(n)]
    /\ inflight = {}
    /\ authored = 0
    /\ uuid = NumNodes + 1
    /\ last = [op |-> "new", node |-> 0, events |-> <<>>, results |-> <<>>]
    /\ IdleDag
    /\ IdleGate
    /\ IdleNet
    /\ IdleLight
    /\ IdleTasks

\* Node::create_event on node n (node.rs 98-138), the DAG lock held from the
\* snapshot of heads to the admit.
NodeCreateEvent(n, payload, order) ==
    /\ authored < MaxAuthored
    /\ LET d == dags[n]
           parents == Range(d.heads)
           ancestors == Ancestors(d, order)
           event == Event_new(uuid, parents, CommandCoords(n), payload)
           r == add_event(d, event)
       IN  /\ order \in Orderings(parents)
           /\ dags' = [dags EXCEPT ![n] = r.dag]
           /\ inflight' = IF r.res = "Ok"
                          THEN inflight \cup Gossip(n, Append(ancestors, event))
                          ELSE inflight
           /\ last' = [op |-> "create_event", node |-> n, events |-> <<event>>,
                       results |-> <<r.res>>]
    /\ uuid' = uuid + 1
    /\ authored' = authored + 1
    /\ UNCHANGED <<dag, pool, physics, now, seq, released,
                   ingested, gates, app_rx, c_cell, tasks>>

\* A handler that keeps a batch with a rejected event queued for another
\* attempt.
NodeHandleGossipRequeue(msg) ==
    /\ msg \in inflight
    /\ LET r == AddAll(dags[msg.receiver], msg.payload, <<>>)
       IN  /\ dags' = [dags EXCEPT ![msg.receiver] = r.dag]
           /\ last' = [op |-> "handle_gossip", node |-> msg.receiver,
                       events |-> msg.payload, results |-> r.results]
           /\ inflight' = IF "MissingParent" \in Range(r.results)
                          THEN inflight ELSE inflight \ {msg}
    /\ UNCHANGED <<dag, pool, uuid, physics, now, seq, released, authored,
                   ingested, gates, app_rx, c_cell, tasks>>

\* Node::handle_message on a Gossip message taken from the inbox
\* (node.rs 81-88, 140-156).
NodeHandleGossip(msg) ==
    /\ msg \in inflight
    /\ LET r == AddAll(dags[msg.receiver], msg.payload, <<>>)
       IN  /\ dags' = [dags EXCEPT ![msg.receiver] = r.dag]
           /\ last' = [op |-> "handle_gossip", node |-> msg.receiver,
                       events |-> msg.payload, results |-> r.results]
    /\ inflight' = inflight \ {msg}
    /\ UNCHANGED <<dag, pool, uuid, physics, now, seq, released, authored,
                   ingested, gates, app_rx, c_cell, tasks>>

NextNode ==
    \/ \E n \in Nodes, payload \in CommandPayloads :
          \E order \in Orderings(Range(dags[n].heads)) :
              NodeCreateEvent(n, payload, order)
    \/ \E msg \in inflight : NodeHandleGossip(msg)

SpecNode == InitNode /\ [][NextNode]_vars

(***************************************************************************)
(* Claims about the replicas, checked under SpecNode.                      *)
(***************************************************************************)
\* The 0-based indices of the nodes of d whose payload is Genesis.
GenesisNodes(d) ==
    {i \in 0..(Len(d.graph.nodes) - 1) : d.graph.nodes[i + 1].payload = "Genesis"}

\* C10: genesis uniqueness: every replica's graph holds exactly one node
\* whose payload is Genesis, the one created at construction.
C10_GenesisUniqueness == \A n \in Nodes : GenesisNodes(dags[n]) = {0}

\* C20: exactly-once admission per replica: under any interleaving of local
\* authoring and gossip handling, each node's graph holds at most one node
\* per event hash.
C20_ExactlyOnceAdmission ==
    \A n \in Nodes :
        \A i, j \in 1..Len(dags[n].graph.nodes) :
            dags[n].graph.nodes[i].hash = dags[n].graph.nodes[j].hash => i = j

\* C21: local authoring always admits: an event built with parents equal
\* to a snapshot of the node's heads is accepted by add_event; every head of
\* every node is resident, so the local admit never returns MissingParent.
C21_LocalAuthoringAdmits ==
    /\ \A n \in Nodes : Range(dags[n].heads) \subseteq DOMAIN dags[n].index_map
    /\ last.op = "create_event" => last.results = <<"Ok">>

\* A node has authored an event on two heads, one of them an event it
\* received from a peer.
C21_Witness ==
    /\ last.op = "create_event"
    /\ last.results = <<"Ok">>
    /\ Cardinality(last.events[1].parents) = 2
    /\ \E h \in last.events[1].parents :
          h[4] # "Genesis" /\ h[3] # CommandCoords(last.node)

\* C28: gossip carries parents ahead of the event: when a peer handles a
\* gossip batch produced by create_event (the direct parent events first,
\* then the new event), add_event of the new event, the last of the batch,
\* does not fail with MissingParent.
C28_GossipCarriesParents ==
    last.op = "handle_gossip" =>
        last.results[Len(last.results)] # "MissingParent"

\* The events resident in node n's DAG, by hash.
Resident(n) == DOMAIN dags[n].index_map
\* The batches still in flight to node n that hold an event with hash h.
Pending(n, h) ==
    {msg \in inflight :
        msg.receiver = n /\ \E i \in DOMAIN msg.payload : msg.payload[i].hash = h}
\* Every event authored so far: each is resident in its author's DAG.
Authored == UNION {Range(dags[n].graph.nodes) : n \in Nodes}

\* The batch handled last is gone from the network, whatever add_event
\* returned for its events.
HandledBatchGone ==
    last.op = "handle_gossip" =>
        \A msg \in inflight :
            ~(msg.receiver = last.node /\ msg.payload = last.events)

\* An event becomes resident in node n's DAG only by a call of add_event on
\* it that returned Ok, made by n's create_event or by n's handle_gossip on
\* a batch delivered to n.
AdmittedOnlyWhenDelivered ==
    \A n \in Nodes :
        \A h \in DOMAIN dags'[n].index_map \ DOMAIN dags[n].index_map :
            /\ last'.node = n
            /\ \E i \in DOMAIN last'.events :
                  last'.events[i].hash = h /\ last'.results[i] = "Ok"

\* C29: rejected events are not retried: an event that add_event rejected
\* with MissingParent is not buffered anywhere; after its missing parents
\* are admitted it is still not resident, and it becomes resident only if
\* it is delivered to the replica again.
C29_RejectedNotRetried ==
    /\ []HandledBatchGone
    /\ [][AdmittedOnlyWhenDelivered]_vars

\* Node n has handled every batch that held event e and rejected e each
\* time; the parents of e have since been admitted at n, and e is still not
\* resident there.
C29_Witness ==
    /\ last.op = "handle_gossip"
    /\ \E e \in Authored :
          /\ e.hash \notin Resident(last.node)
          /\ e.parents # {}
          /\ e.parents \subseteq Resident(last.node)
          /\ Pending(last.node, e.hash) = {}
          /\ \E i \in DOMAIN last.events :
                last.events[i].hash \in e.parents /\ last.results[i] = "Ok"

(***************************************************************************)
(* SpecNet: the two replicas main.rs starts (ports 5000 and 5001), each    *)
(* with its App, its PhysicsLayer and its Network task.  A broadcast is    *)
(* admitted locally and sent to the other replica; the receiver decodes    *)
(* it, holds it in its gate and hands it to its main loop when released.   *)
(***************************************************************************)
\* Broadcast actions handled, over both replicas.
MaxBroadcasts == 2
\* The last reading of the clock, in seconds.
MaxNetTime == 4
\* Connections opened by clients other than send_gossip, and the streams
\* sent on one of them.
MaxConnections == 1
MaxStreams == 2

\* main.rs 58-69: the ports, and the coordinates main gives each.
Replicas == {5000, 5001}
my_coords(port) ==
    IF port = 5001 THEN SpacetimeCoord(0, 300, 0, 0) ELSE SpacetimeCoord(0, 0, 0, 0)

\* main.rs 97.
target_port(port) == IF port = 5000 THEN 5001 ELSE 5000

\* EventHash::default(), the value serde gives a skipped field: 32 zero
\* bytes, which no event's content hashes to.
ZeroHash == <<0, {}, SpacetimeCoord(0, 0, 0, 0), "">>

\* bincode::serialize of ProtocolMessage::Gossip(event): every field of the
\* event but hash, which is #[serde(skip)] (event.rs 66-67).
serialize(event) ==
    [tag |-> "Gossip", id |-> event.id, parents |-> event.parents,
     coords |-> event.coords, payload |-> event.payload]

\* bincode::deserialize: the fields from the bytes, hash left at its default.
deserialize(bytes) ==
    [id |-> bytes.id, parents |-> bytes.parents, coords |-> bytes.coords,
     payload |-> bytes.payload, hash |-> ZeroHash]

\* Bytes that are not the encoding of a ProtocolMessage.
Malformed ==
    [tag |-> "Malformed", id |-> 0, parents |-> {},
     coords |-> SpacetimeCoord(0, 0, 0, 0), payload |-> ""]

\* bincode::deserialize returns Ok (network.rs 174).
Decodes(bytes) == bytes.tag = "Gossip"

\* The stream sequences a client may send on one connection: up to
\* MaxStreams streams, each Malformed or the encoding of an event that the
\* replica `sender` has authored, at least one of them Malformed (the
\* connections send_gossip opens carry the well-formed traffic).
Streams(sender) ==
    LET sent == {e \in Range(dags[sender].graph.nodes) : e.payload # "Genesis"}
        wire == {Malformed} \cup {serialize(e) : e \in sent}
    IN  {q \in UNION {[1..k -> wire] : k \in 1..MaxStreams} :
            \E i \in DOMAIN q : q[i] = Malformed}

\* f64::sqrt on the whole numbers the model's coordinates produce.
sqrt(n) == CHOOSE k \in 0..n : k * k <= n /\ (k + 1) * (k + 1) > n

\* network.rs 176-180: the separation of a Gossip event from the receiver.
Separation(event, coords) ==
    LET dx == event.coords.x - coords.x
        dy == event.coords.y - coords.y
    IN  Fin(sqrt(dx * dx + dy * dy))

\* App::update on Action::NewEvent(msg): the message is printed; the DAG is
\* not touched and add_event is not called (app.rs 33-35).
App_update(d, action) == [dag |-> d, add_event |-> "NotCalled"]

\* network.rs 144-146 and 158-160: each released message is sent to the
\* main loop as Action::NewEvent.
ForwardFirst(rx, ready) ==
    IF ready = <<>> THEN rx
    ELSE Append(rx, [action |-> "NewEvent", msg |-> Head(ready)])
RECURSIVE Forward(_, _)
Forward(rx, ready) ==
    IF ready = <<>> THEN rx
    ELSE Forward(Append(rx, [action |-> "NewEvent", msg |-> Head(ready)]), Tail(ready))

\* The record kept of each packet a drain_arrived call of replica r's gate
\* returned, with the task that made the call.
Returned(r, ready, by) ==
    [i \in 1..Len(ready) |->
        [msg |-> ready[i].msg, replica |-> r, by |-> by,
         available_at |-> ready[i].available_at]]

InitNet ==
    /\ dags = [r \in Replicas |-> SpacetimeDAG_new(r - 4999)]
    /\ gates = [r \in Replicas |-> PhysicsLayer_new(SPEED_OF_LIGHT)]
    /\ app_rx = [r \in Replicas |-> <<>>]
    /\ inflight = {}
    /\ uuid = 3
    /\ now = 0
    /\ last = [op |-> "new", replica |-> 0, event |-> Genesis(0),
               add_event |-> "NotCalled"]
    /\ authored = 0
    /\ dag = SpacetimeDAG_new(0)
    /\ pool = {}
    /\ physics = PhysicsLayer_new(SPEED_OF_LIGHT)
    /\ seq = 0
    /\ released = <<>>
    /\ ingested = <<>>
    /\ IdleLight
    /\ IdleTasks

\* Instant::now() advances.
NetClock ==
    /\ now < MaxNetTime
    /\ now' = now + 1
    /\ UNCHANGED <<dag, pool, uuid, last, physics, seq, released, dags, inflight,
                   authored, ingested, gates, app_rx, c_cell, tasks>>

\* main.rs 96-111, Action::Broadcast on replica r: the event is built on the
\* heads, admitted locally, sent to the other replica on a connection of
\* its own (network.rs 207-216: one connection, one stream), and shown to
\* App::update.
NetBroadcast(r) ==
    /\ uuid < 3 + MaxBroadcasts
    /\ LET parents == Range(dags[r].heads)
           event == Event_new(uuid, parents, my_coords(r), "Put")
           added == add_event(dags[r], event)
           shown == App_update(added.dag, [action |-> "NewEvent", msg |-> event])
       IN  /\ dags' = [dags EXCEPT ![r] = shown.dag]
           /\ inflight' = inflight \cup
                 {[conn |-> 0, sender |-> r, receiver |-> target_port(r),
                   streams |-> <<serialize(event)>>, stage |-> "open"]}
           /\ last' = [op |-> "broadcast", replica |-> r, event |-> event,
                       add_event |-> added.res]
    /\ uuid' = uuid + 1
    /\ UNCHANGED <<dag, pool, physics, now, seq, released, authored, ingested,
                   gates, app_rx, c_cell, tasks>>

\* A QUIC client connects to replica r (network.rs 148-163 accepts every
\* connection) and sends streams on one connection, each either the bytes
\* of an event the other replica has authored or bytes that do not decode.
NetPeerConnect(r, streams) ==
    /\ seq < MaxConnections
    /\ seq' = seq + 1
    /\ inflight' = inflight \cup
          {[conn |-> seq + 1, sender |-> target_port(r), receiver |-> r,
            streams |-> streams, stage |-> "open"]}
    /\ UNCHANGED <<dag, pool, uuid, last, physics, now, released, dags, authored,
                   ingested, gates, app_rx, c_cell, tasks>>

\* network.rs 172-186, one turn of the loop of the receiver's connection
\* task: the next stream is read and decoded and the message handed to the
\* gate with its separation.  Bytes that do not decode make handle_connection
\* return the error (network.rs 174), which ends the loop with the later
\* streams unread; after the last stream accept_uni fails and the loop ends.
\* A panic in ingest ends the task.
NetHandleConnection(conn) ==
    /\ conn.stage = "open"
    /\ conn.streams # <<>>
    /\ LET r == conn.receiver
           data == Head(conn.streams)
           rest == Tail(conn.streams)
           event == deserialize(data)
           dist == Separation(event, my_coords(r))
       IN  IF ~Decodes(data)
           THEN /\ inflight' = (inflight \ {conn}) \cup
                      {[conn EXCEPT !.streams = rest, !.stage = "ended"]}
                /\ last' = [op |-> "decode_error", replica |-> r, event |-> event,
                            add_event |-> "NotCalled"]
                /\ UNCHANGED <<gates, ingested>>
           ELSE \E res \in ingest(gates[r], event, dist, now) :
                   /\ gates' = [gates EXCEPT ![r] = res.physics]
                   /\ inflight' = (inflight \ {conn}) \cup
                         (IF res.res = "Ok"
                          THEN {[conn EXCEPT !.streams = rest,
                                             !.stage = IF rest = <<>> THEN "ended"
                                                       ELSE "open"]}
                          ELSE {})
                   /\ last' = [op |-> "receive", replica |-> r, event |-> event,
                               add_event |-> "NotCalled"]
                   /\ ingested' = IF res.res = "Ok"
                                  THEN Append(ingested, [msg |-> event, replica |-> r])
                                  ELSE ingested
    /\ UNCHANGED <<dag, pool, uuid, physics, now, seq, released, dags, authored,
                   app_rx, c_cell, tasks>>

\* network.rs 154-160: handle_connection has returned; the connection task
\* drains the gate once, forwards what is released, and ends, which drops
\* the connection.
NetConnectionClosed(conn) ==
    /\ conn.stage = "ended"
    /\ LET r == conn.receiver
           res == drain_arrived(gates[r], now)
       IN  /\ gates' = [gates EXCEPT ![r] = res.physics]
           /\ app_rx' = [app_rx EXCEPT ![r] =
                 Forward(app_rx[r], [i \in 1..Len(res.ready) |-> res.ready[i].msg])]
           /\ released' = released \o Returned(r, res.ready, "connection")
    /\ inflight' = inflight \ {conn}
    /\ UNCHANGED <<dag, pool, uuid, last, physics, now, seq, dags,
                   authored, ingested, c_cell, tasks>>

\* network.rs 142-147: the 50 ms tick of replica r's network task.
NetTick(r) ==
    /\ LET res == drain_arrived(gates[r], now)
       IN  /\ gates' = [gates EXCEPT ![r] = res.physics]
           /\ app_rx' = [app_rx EXCEPT ![r] =
                 Forward(app_rx[r], [i \in 1..Len(res.ready) |-> res.ready[i].msg])]
           /\ released' = released \o Returned(r, res.ready, "tick")
    /\ UNCHANGED <<dag, pool, uuid, last, physics, now, seq, dags,
                   inflight, authored, ingested, c_cell, tasks>>

\* main.rs 115-117: the main loop of replica r takes the next action of the
\* network task and passes it to App::update.
NetUpdate(r) ==
    /\ app_rx[r] # <<>>
    /\ LET action == Head(app_rx[r])
           updated == App_update(dags[r], action)
       IN  /\ dags' = [dags EXCEPT ![r] = updated.dag]
           /\ last' = [op |-> "update", replica |-> r, event |-> action.msg,
                       add_event |-> updated.add_event]
    /\ app_rx' = [app_rx EXCEPT ![r] = Tail(app_rx[r])]
    /\ UNCHANGED <<dag, pool, uuid, physics, now, seq, released, inflight,
                   authored, ingested, gates, c_cell, tasks>>

NextNet ==
    \/ NetClock
    \/ \E r \in Replicas : NetBroadcast(r)
    \/ \E conn \in inflight : NetHandleConnection(conn)
    \/ \E conn \in inflight : NetConnectionClosed(conn)
    \/ \E r \in Replicas : NetTick(r)
    \/ \E r \in Replicas : NetUpdate(r)

SpecNet == InitNet /\ [][NextNet]_vars

\* The 50 ms interval of Network::run keeps ticking and the clock advances.
SpecNetFair ==
    /\ SpecNet
    /\ WF_vars(NetClock)
    /\ \A r \in Replicas : WF_vars(NetTick(r))

(***************************************************************************)
(* SpecWire: SpecNet with, in addition, clients that open a connection to  *)
(* a replica and send several streams on it.                               *)
(***************************************************************************)
NextWire ==
    \/ NextNet
    \/ \E r \in Replicas : \E streams \in Streams(target_port(r)) :
          NetPeerConnect(r, streams)

SpecWire == InitNet /\ [][NextWire]_vars

(***************************************************************************)
(* Claims about the wire and the main loop, checked under SpecNet.         *)
(***************************************************************************)
\* The events of d with the id of event.
SameId(d, event) == {e \in Range(d.graph.nodes) : e.id = event.id}

\* C18: wire round-trip preserves the content address: the event a receiver
\* decodes from a Gossip message has the hash of the event the sender
\* encoded.
C18_WireRoundTrip ==
    last.op = "receive" =>
        /\ SameId(dags[target_port(last.replica)], last.event) # {}
        /\ \A e \in SameId(dags[target_port(last.replica)], last.event) :
              last.event.hash = e.hash

\* C19: release leads to admission: every Gossip(event) the gate of a
\* replica releases is passed to add_event of that replica's DAG, so a
\* released event whose parents are resident becomes resident.
C19_ReleaseLeadsToAdmission ==
    last.op = "update" =>
        /\ last.add_event \in {"Ok", "Err"}
        /\ (last.event.parents \subseteq DOMAIN dags[last.replica].index_map)
              => SameId(dags[last.replica], last.event) # {}

\* C22: a malformed inbound message is dropped without closing the
\* connection: after a stream whose bytes fail to decode, the later
\* well-formed streams of the same connection are still decoded and
\* ingested, so no connection task ends with a well-formed stream unread.
C22_MalformedDropped ==
    \A conn \in inflight :
        conn.stage = "ended" =>
            \A i \in 1..Len(conn.streams) : ~Decodes(conn.streams[i])

\* Every message a gate accepted is in that gate's buffer or was returned by
\* a drain, once in all.
ReleasedOnce ==
    \A k \in DOMAIN ingested :
        LET m == ingested[k]
            buffer == gates[m.replica].buffer
            held == {i \in DOMAIN buffer : buffer[i].msg = m.msg}
            returned == {i \in DOMAIN released :
                            released[i].msg = m.msg /\ released[i].replica = m.replica}
            accepted == {i \in DOMAIN ingested :
                            ingested[i].msg = m.msg /\ ingested[i].replica = m.replica}
        IN  Cardinality(held) + Cardinality(returned) = Cardinality(accepted)

\* A step appends to a replica's queue of actions one NewEvent for each
\* packet its gate's drain returned in the step, in order, and nothing
\* else; the main loop takes actions from the front.
ForwardedOnce ==
    \A r \in Replicas :
        LET new == SubSeq(released', Len(released) + 1, Len(released'))
            mine == SelectSeq(new, LAMBDA x : x.replica = r)
            sent == [i \in 1..Len(mine) |->
                        [action |-> "NewEvent", msg |-> mine[i].msg]]
        IN  \/ app_rx'[r] = app_rx[r] \o sent
            \/ sent = <<>> /\ app_rx[r] # <<>> /\ app_rx'[r] = Tail(app_rx[r])

\* The message of broadcast event id waits in a gate with a deadline the
\* clock reaches; it has been forwarded.
Waiting(id) ==
    \E r \in Replicas : \E pkt \in Range(gates[r].buffer) :
        pkt.msg.id = id /\ pkt.available_at <= MaxNetTime
Forwarded(id) == \E i \in DOMAIN released : released[i].msg.id = id

\* C27: every message ingested into the gate is released exactly once: it
\* is returned by exactly one drain_arrived call and forwarded to the
\* application exactly once, never duplicated and never lost, though the
\* tick and the connection tasks drain the same gate; and with the tick
\* scheduled fairly and the clock advancing, every ingested message with a
\* finite delay is eventually forwarded.
C27_ReleasedExactlyOnce ==
    /\ []ReleasedOnce
    /\ [][ForwardedOnce]_vars
    /\ \A id \in 3..(2 + MaxBroadcasts) : Waiting(id) ~> Forwarded(id)

\* Each replica's gate has released a message after its delay, one by the
\* drain of a connection task and one by the tick, and both wait for the
\* main loops.
C27_Witness ==
    /\ Len(released) = 2
    /\ released[1].by # released[2].by
    /\ \A r \in Replicas : gates[r].buffer = <<>>
    /\ \A r \in Replicas : app_rx[r] # <<>>
    /\ inflight = {}

\* The packets the drains of replica r's gate have returned, in order.
ReleasedAt(r) == SelectSeq(released, LAMBDA x : x.replica = r)

\* C34: release order survives concurrent drainers: the tick and every
\* finished connection task drain the same gate, each holding the gate lock
\* from its drain until it has sent the drained messages, so the
\* application receives messages in non-decreasing available_at order.
C34_ReleaseOrder ==
    \A r \in Replicas :
        LET mine == ReleasedAt(r)
            queued == Len(app_rx[r])
        IN  /\ \A i, j \in DOMAIN mine :
                  i < j => mine[i].available_at <= mine[j].available_at
            /\ queued <= Len(mine)
            /\ \A k \in 1..queued :
                  app_rx[r][k].msg = mine[Len(mine) - queued + k].msg

\* A replica's main loop has been sent two messages with different
\* deadlines, one drained by the tick and one by a connection task.
C34_Witness ==
    \E r \in Replicas :
        LET mine == ReleasedAt(r)
        IN  /\ Len(mine) = 2
            /\ mine[1].available_at < mine[2].available_at
            /\ mine[1].by # mine[2].by
            /\ Len(app_rx[r]) = 2

(***************************************************************************)
(* spacetime.rs                                                            *)
(***************************************************************************)
\* The width, in bits, the model gives SpacetimeCoord::t and the signed
\* type it is cast to (u128 and i128 in the source).
TBits == 3
TMod == 2 ^ TBits

\* `t as i128`: the same bits read as a two's complement number.
as_signed(t) == IF t >= TMod \div 2 THEN t - TMod ELSE t

\* a - b on the signed type.  A difference outside the type panics when the
\* build has overflow checks (the dev and test profiles) and wraps when it
\* has none (the release profile).
sub_signed(a, b, overflow_checks) ==
    LET d == a - b
        lo == 0 - (TMod \div 2)
        hi == (TMod \div 2) - 1
    IN  IF d >= lo /\ d <= hi THEN [res |-> "Ok", v |-> d]
        ELSE IF overflow_checks THEN [res |-> "panic", v |-> 0]
        ELSE [res |-> "Ok", v |-> IF d > hi THEN d - TMod ELSE d + TMod]

\* spacetime.rs 70, 86: other.t as i128 - self.t as i128.
delta_t_ns(self, other, overflow_checks) ==
    sub_signed(as_signed(other.t), as_signed(self.t), overflow_checks)

\* SpacetimeCoord::interval_sq with the global speed of light c.  The model
\* counts t in seconds and positions in whole meters, so every product is
\* exact.
interval_sq(self, other, c, overflow_checks) ==
    LET delta == delta_t_ns(self, other, overflow_checks)
        delta_x == other.x - self.x
        delta_y == other.y - self.y
        delta_z == other.z - self.z
        spatial_sq == delta_x * delta_x + delta_y * delta_y + delta_z * delta_z
        ct == c * delta.v
    IN  IF delta.res = "panic" THEN [res |-> "panic", v |-> 0]
        ELSE [res |-> "Ok", v |-> (ct * ct) - spatial_sq]

\* impl PartialOrd for SpacetimeCoord: partial_cmp, None for a negative
\* interval, otherwise the sign of the time difference.
partial_cmp(self, other, c, overflow_checks) ==
    LET s_sq == interval_sq(self, other, c, overflow_checks)
        delta == delta_t_ns(self, other, overflow_checks)
    IN  IF s_sq.res = "panic" THEN "panic"
        ELSE IF s_sq.v < 0 THEN "None"
        ELSE IF delta.v > 0 THEN "Less"
        ELSE IF delta.v < 0 THEN "Greater"
        ELSE "Equal"

(***************************************************************************)
(* SpecCoord: two coordinates are compared with partial_cmp, in both       *)
(* orders, under the speed of light last set with set_speed_of_light.      *)
(***************************************************************************)

\* The coordinates compared: every t of the type, positions on a small grid.
Coords ==
    {SpacetimeCoord(t, x, y, 0) : t \in 0..(TMod - 1), x \in {0, 1, 3}, y \in {0, 2}}

\* The two coordinates to compare and the build profile are drawn at the
\* start; set_speed_of_light has been called with one of Lights.
InitCoord ==
    /\ c_cell \in Lights
    /\ \E a, b \in Coords, overflow_checks \in BOOLEAN :
          last = [op |-> "new", a |-> a, b |-> b,
                  overflow_checks |-> overflow_checks, c |-> 0,
                  res |-> "NotCalled", rev |-> "NotCalled"]
    /\ uuid = 0
    /\ IdleDag
    /\ IdleGate
    /\ IdleNode
    /\ IdleNet
    /\ IdleTasks

\* set_speed_of_light(c).
CoordSetSpeed(c) ==
    /\ c # c_cell
    /\ c_cell' = c
    /\ UNCHANGED <<dag, pool, uuid, last, physics, now, seq, released, dags,
                   inflight, authored, ingested, gates, app_rx, tasks>>

\* a.partial_cmp(&b) and b.partial_cmp(&a) on the coordinates drawn, under
\* the speed of light in effect.
CoordCompare ==
    /\ last.op = "new"
    /\ last' = [last EXCEPT
                  !.op = "partial_cmp",
                  !.c = c_cell,
                  !.res = partial_cmp(last.a, last.b, c_cell, last.overflow_checks),
                  !.rev = partial_cmp(last.b, last.a, c_cell, last.overflow_checks)]
    /\ UNCHANGED <<dag, pool, uuid, physics, now, seq, released, dags,
                   inflight, authored, ingested, gates, app_rx, c_cell,
                   tasks>>

NextCoord ==
    \/ \E c \in Lights : CoordSetSpeed(c)
    \/ CoordCompare

SpecCoord == InitCoord /\ [][NextCoord]_vars

(***************************************************************************)
(* Claims about the coordinates, checked under SpecCoord.                  *)
(***************************************************************************)
\* The squared Minkowski interval of a and b under c:
\* c^2 dt^2 - dx^2 - dy^2 - dz^2.
S2(a, b, c) ==
    (c * c * (b.t - a.t) * (b.t - a.t))
        - ((b.x - a.x) * (b.x - a.x) + (b.y - a.y) * (b.y - a.y)
           + (b.z - a.z) * (b.z - a.z))

\* C23: spacelike pairs are incomparable in both directions: for a, b with
\* s2(a, b) < 0 under the current c, partial_compare(a, b) and
\* partial_compare(b, a) both return Incomparable.
C23_SpacelikeIncomparable ==
    (last.op = "partial_cmp" /\ S2(last.a, last.b, last.c) < 0) =>
        (last.res = "None" /\ last.rev = "None")

\* C24: non-spacelike pairs are ordered by coordinate time: for a, b with
\* s2(a, b) >= 0, partial_compare(a, b) is Less when a.t < b.t, Greater when
\* a.t > b.t and Equal only when a.t = b.t; so partial_compare(a, b) is Less
\* exactly when partial_compare(b, a) is Greater.
C24_TimeOrder ==
    (last.op = "partial_cmp" /\ S2(last.a, last.b, last.c) >= 0) =>
        /\ last.a.t < last.b.t => last.res = "Less"
        /\ last.a.t > last.b.t => last.res = "Greater"
        /\ last.res = "Equal" <=> last.a.t = last.b.t
        /\ last.res = "Less" <=> last.rev = "Greater"

(***************************************************************************)
(* SpecOrder: three coordinates are compared pairwise with partial_cmp     *)
(* under one speed of light.                                               *)
(***************************************************************************)

\* The coordinates compared in a chain: every t of the type, positions on
\* the x axis.
ChainCoords ==
    {SpacetimeCoord(t, x, 0, 0) : t \in 0..(TMod - 1), x \in {0, 1, 3}}

\* The three coordinates and the build profile are drawn at the start;
\* set_speed_of_light has been called with one of Lights.
InitOrder ==
    /\ c_cell \in Lights
    /\ \E a, b, c3 \in ChainCoords, overflow_checks \in BOOLEAN :
          last = [op |-> "new", a |-> a, b |-> b, c3 |-> c3,
                  overflow_checks |-> overflow_checks, c |-> 0,
                  ab |-> "NotCalled", bc |-> "NotCalled", ac |-> "NotCalled"]
    /\ uuid = 0
    /\ IdleDag
    /\ IdleGate
    /\ IdleNode
    /\ IdleNet
    /\ IdleTasks

\* a.partial_cmp(&b), b.partial_cmp(&c3) and a.partial_cmp(&c3), under the
\* speed of light in effect.
OrderCompare ==
    /\ last.op = "new"
    /\ last' = [last EXCEPT
                  !.op = "partial_cmp",
                  !.c = c_cell,
                  !.ab = partial_cmp(last.a, last.b, c_cell, last.overflow_checks),
                  !.bc = partial_cmp(last.b, last.c3, c_cell, last.overflow_checks),
                  !.ac = partial_cmp(last.a, last.c3, c_cell, last.overflow_checks)]
    /\ UNCHANGED <<dag, pool, uuid, physics, now, seq, released, dags,
                   inflight, authored, ingested, gates, app_rx, c_cell,
                   tasks>>

NextOrder ==
    \/ \E c \in Lights : CoordSetSpeed(c)
    \/ OrderCompare

SpecOrder == InitOrder /\ [][NextOrder]_vars

\* C35: the causal order on coordinates is transitive: for a fixed c and any
\* coordinates a, b, c3, if partial_compare(a, b) = Less and
\* partial_compare(b, c3) = Less then partial_compare(a, c3) = Less.
C35_Transitive ==
    (last.op = "partial_cmp" /\ last.ab = "Less" /\ last.bc = "Less") =>
        last.ac = "Less"

(***************************************************************************)
(* SpecCluster: the simulated network of simulation.rs.  Messages are      *)
(* routed between registered nodes; each is held by a task that sleeps for *)
(* the light delay and then sends it to the receiver's inbox, from which   *)
(* the owner of the inbox receives.                                        *)
(***************************************************************************)
\* The coordinates node n is registered with (register_node): the nodes lie
\* on the x axis, two metres apart.
ClusterCoords(n) == SpacetimeCoord(0, 2 * (n - 1), 0, 0)
\* The capacity of a node's inbox channel.
InboxCapacity == 1
\* The number of route_message calls made.
MaxRoutes == 2

\* simulation.rs 55-58: the distance between two registered nodes.
Distance(sender, receiver) ==
    LET dx == ClusterCoords(receiver).x - ClusterCoords(sender).x
        dy == ClusterCoords(receiver).y - ClusterCoords(sender).y
        dz == ClusterCoords(receiver).z - ClusterCoords(sender).z
    IN  sqrt(dx * dx + dy * dy + dz * dz)

\* Cluster::route_message up to the spawn (simulation.rs 45-64): the delays
\* the spawned task may be given, or a panic of Duration::from_secs_f64.
route_message(sender, receiver, c) ==
    {from_secs_f64(delay) : delay \in fdiv(Fin(Distance(sender, receiver)), c)}

\* simulation.rs 68: tokio::time::sleep(delay_dur) has completed at clock
\* reading t.
SleepOverAlways(task, t) == TRUE
SleepOver(task, t) == t >= task.routed_at + task.delay

InitCluster ==
    /\ c_cell \in Lights
    /\ inflight = {}
    /\ app_rx = [n \in Nodes |-> <<>>]
    /\ now = 0
    /\ seq = 0
    /\ released = {}
    /\ last = [op |-> "new"]
    /\ uuid = 0
    /\ IdleDag
    /\ physics = PhysicsLayer_new(SPEED_OF_LIGHT)
    /\ ingested = <<>>
    /\ dags = <<>>
    /\ authored = 0
    /\ gates = <<>>
    /\ IdleTasks

\* set_speed_of_light(c).
ClusterSetSpeed(c) ==
    /\ c # c_cell
    /\ c_cell' = c
    /\ UNCHANGED <<dag, pool, uuid, last, physics, now, seq, released, dags,
                   inflight, authored, ingested, gates, app_rx, tasks>>

\* The clock advances.
ClusterTick ==
    /\ now < MaxTime
    /\ now' = now + 1
    /\ UNCHANGED <<dag, pool, uuid, last, physics, seq, released, dags,
                   inflight, authored, ingested, gates, app_rx, c_cell,
                   tasks>>

\* cluster.route_message(msg) for a message from sender to receiver; the
\* message is identified by the number of the call.  The payload is
\* Gossip(vec![]), as in tests::mars_delay.
ClusterRoute(sender, receiver) ==
    /\ seq < MaxRoutes
    /\ seq' = seq + 1
    /\ \E r \in route_message(sender, receiver, c_cell) :
          inflight' = IF r.res = "panic" THEN inflight
                      ELSE inflight \cup
                             {[msg |-> seq + 1, sender |-> sender,
                               receiver |-> receiver, routed_at |-> now,
                               c |-> c_cell, delay |-> r.secs]}
    /\ UNCHANGED <<dag, pool, uuid, last, physics, now, released, dags,
                   authored, ingested, gates, app_rx, c_cell, tasks>>

\* simulation.rs 66-70, the spawned task: the sleep is over and the inbox
\* has room, so tx.send(msg) completes.
ClusterDeliver(task) ==
    /\ SleepOver(task, now)
    /\ Len(app_rx[task.receiver]) < InboxCapacity
    /\ app_rx' = [app_rx EXCEPT ![task.receiver] = Append(@, task)]
    /\ inflight' = inflight \ {task}
    /\ released' = released \cup {[task |-> task, at |-> now]}
    /\ UNCHANGED <<dag, pool, uuid, last, physics, now, seq, dags,
                   authored, ingested, gates, c_cell, tasks>>

\* The owner of node n's inbox receives the next message (rx.recv()).
ClusterRecv(n) ==
    /\ app_rx[n] # <<>>
    /\ app_rx' = [app_rx EXCEPT ![n] = Tail(@)]
    /\ UNCHANGED <<dag, pool, uuid, last, physics, now, seq, released, dags,
                   inflight, authored, ingested, gates, c_cell, tasks>>

NextCluster ==
    \/ \E c \in Lights : ClusterSetSpeed(c)
    \/ ClusterTick
    \/ \E sender, receiver \in Nodes : ClusterRoute(sender, receiver)
    \/ \E task \in inflight : ClusterDeliver(task)
    \/ \E n \in Nodes : ClusterRecv(n)

SpecCluster == InitCluster /\ [][NextCluster]_vars

\* The tokio runtime runs every spawned task whose sleep is over and whose
\* send can complete, the owner of an inbox keeps receiving, and time
\* passes.
SpecClusterFair ==
    /\ SpecCluster
    /\ WF_vars(ClusterTick)
    /\ \A n \in Nodes : WF_vars(ClusterRecv(n))
    /\ \A msg \in 1..MaxRoutes :
          WF_vars(\E task \in inflight : task.msg = msg /\ ClusterDeliver(task))

(***************************************************************************)
(* Claims about the simulated network, checked under SpecClusterFair.      *)
(***************************************************************************)
\* Message msg is held by a sleeping task whose delay ends within the clock
\* readings of the model; message msg has been delivered to an inbox.
Travelling(msg) ==
    \E task \in inflight :
        task.msg = msg /\ task.routed_at + task.delay <= MaxTime
Delivered(msg) == \E r \in released : r.task.msg = msg

\* No message has reached an inbox before d / c has elapsed since its
\* route_message call, with d the distance of the two nodes and c the speed
\* of light at the call.
NotBeforeLightDelay ==
    \A r \in released :
        r.at * r.task.c >=
            r.task.routed_at * r.task.c + Distance(r.task.sender, r.task.receiver)

\* C25: simulated cluster delay: a message routed between two registered
\* nodes at distance d is not delivered to the receiver's inbox before d / c
\* has elapsed since the call (c read at the call), and is delivered once
\* that delay has elapsed.
C25_ClusterDelay ==
    /\ []NotBeforeLightDelay
    /\ \A msg \in 1..MaxRoutes : Travelling(msg) ~> Delivered(msg)

\* A message was delivered at the very instant its delay of two seconds
\* ended, after the speed of light had been changed while it travelled.
C25_Witness ==
    \E r \in released :
        /\ r.task.delay = 2
        /\ r.at = r.task.routed_at + 2
        /\ c_cell # r.task.c

(***************************************************************************)
(* SpecLock: one Node and a task that holds the Arc<Mutex<SpacetimeDAG>>   *)
(* Node::new returns (node.rs 39-56).  The node task runs create_event and *)
(* handle_gossip, whose add_event calls are taken statement by statement;  *)
(* the other task locks the DAG and reads it.                              *)
(***************************************************************************)
\* Commands and batches the node task handles.
MaxHandled == 3

\* The batches a peer's create_event produces: the peer's genesis with its
\* first event, the first event with the second, and an event the peer
\* built on the node's own first event and on the peer's second event,
\* with these two parents ahead of it.
PeerGenesis == Genesis(NumNodes + 1)
PeerEvent == Event_new(NumNodes + 2, {PeerGenesis.hash}, CommandCoords(2), "Put")
PeerSecond == Event_new(NumNodes + 3, {PeerEvent.hash}, CommandCoords(2), "Put")
OwnFirst == Event_new(NumNodes + 4, {Genesis(1).hash}, CommandCoords(1), "Put")
PeerMerge == Event_new(0, {OwnFirst.hash, PeerSecond.hash}, CommandCoords(2), "Put")
PeerBatches == {<<PeerGenesis, PeerEvent>>,
                <<PeerEvent, PeerSecond>>,
                <<OwnFirst, PeerSecond, PeerMerge>>}

\* tokio::sync::Mutex::lock returns once no task holds the guard.
MutexFreeAlways(t) == TRUE
MutexFree(t) == t.lock = "free"

InitLock ==
    /\ dag = SpacetimeDAG_new(1)
    /\ tasks = [lock |-> "free", node |-> "idle", queue |-> <<>>,
                reader |-> "idle", op |-> "none", event |-> Genesis(1),
                snapshot |-> <<>>]
    /\ last = [op |-> "new", seen |-> SpacetimeDAG_new(1),
               committed |-> SpacetimeDAG_new(1)]
    /\ uuid = NumNodes + 4
    /\ authored = 0
    /\ pool = {}
    /\ IdleGate
    /\ dags = <<>>
    /\ inflight = {}
    /\ IdleNet
    /\ IdleLight

\* node.rs 99-110: create_event takes the lock, snapshots heads and builds
\* the event.
LockCreateEvent(payload) ==
    /\ authored < MaxHandled
    /\ tasks.node = "idle"
    /\ MutexFree(tasks)
    /\ LET event == Event_new(uuid, Range(dag.heads), CommandCoords(1), payload)
       IN  tasks' = [tasks EXCEPT !.lock = "node", !.node = "locked",
                        !.queue = <<event>>, !.op = "create_event",
                        !.event = event, !.snapshot = dag.heads]
    /\ uuid' = uuid + 1
    /\ authored' = authored + 1
    /\ UNCHANGED <<dag, pool, last, physics, now, seq, released, dags,
                   inflight, ingested, gates, app_rx, c_cell>>

\* node.rs 141: handle_gossip takes the lock for the whole batch.  A batch
\* holds an event of this node only after the node has authored it.
LockHandleGossip(batch) ==
    /\ authored < MaxHandled
    /\ tasks.node = "idle"
    /\ MutexFree(tasks)
    /\ \A i \in DOMAIN batch :
          batch[i].coords = CommandCoords(1) =>
              batch[i].hash \in DOMAIN dag.index_map
    /\ tasks' = [tasks EXCEPT !.lock = "node", !.node = "locked",
                              !.queue = batch, !.op = "handle_gossip"]
    /\ authored' = authored + 1
    /\ UNCHANGED <<dag, pool, uuid, last, physics, now, seq, released, dags,
                   inflight, ingested, gates, app_rx, c_cell>>

\* dag.rs 115-123: the parent check, then add_node and index_map.insert.
LockedInsert ==
    /\ tasks.node = "locked"
    /\ tasks.queue # <<>>
    /\ IF MissingParent(dag, Head(tasks.queue))
       THEN /\ tasks' = [tasks EXCEPT !.queue = Tail(@)]
            /\ dag' = dag
       ELSE /\ tasks' = [tasks EXCEPT !.node = "inserted"]
            /\ dag' = InsertNode(dag, Head(tasks.queue))
    /\ UNCHANGED <<pool, uuid, last, physics, now, seq, released, dags,
                   inflight, authored, ingested, gates, app_rx, c_cell>>

\* dag.rs 125-130: the edges to the parents.
LockedEdges ==
    /\ tasks.node = "inserted"
    /\ tasks' = [tasks EXCEPT !.node = "edged"]
    /\ dag' = AddParentEdges(dag, Len(dag.graph.nodes) - 1)
    /\ UNCHANGED <<pool, uuid, last, physics, now, seq, released, dags,
                   inflight, authored, ingested, gates, app_rx, c_cell>>

\* dag.rs 132-135: heads.retain and heads.push; add_event returns Ok.
LockedHeads ==
    /\ tasks.node = "edged"
    /\ tasks' = [tasks EXCEPT !.node = "locked", !.queue = Tail(@)]
    /\ dag' = [dag EXCEPT !.heads = UpdateHeads(@, Head(tasks.queue))]
    /\ last' = [last EXCEPT !.committed = dag']
    /\ UNCHANGED <<pool, uuid, physics, now, seq, released, dags,
                   inflight, authored, ingested, gates, app_rx, c_cell>>

\* node.rs 122 (drop(dag)) and 156 (the guard goes out of scope).
NodeUnlock ==
    /\ tasks.node = "locked"
    /\ tasks.queue = <<>>
    /\ tasks' = [tasks EXCEPT !.lock = "free", !.node = "idle",
                              !.op = "none", !.event = Genesis(1),
                              !.snapshot = <<>>]
    /\ UNCHANGED <<dag, pool, uuid, last, physics, now, seq, released, dags,
                   inflight, authored, ingested, gates, app_rx, c_cell>>

\* The other task: dag.lock().await.
ReaderLock ==
    /\ tasks.reader = "idle"
    /\ MutexFree(tasks)
    /\ tasks' = [tasks EXCEPT !.lock = "reader", !.reader = "locked"]
    /\ UNCHANGED <<dag, pool, uuid, last, physics, now, seq, released, dags,
                   inflight, authored, ingested, gates, app_rx, c_cell>>

\* It reads heads and the graph through the guard.
ReaderRead ==
    /\ tasks.reader = "locked"
    /\ tasks' = [tasks EXCEPT !.reader = "read"]
    /\ last' = [last EXCEPT !.op = "read", !.seen = dag]
    /\ UNCHANGED <<dag, pool, uuid, physics, now, seq, released, dags,
                   inflight, authored, ingested, gates, app_rx, c_cell>>

\* It drops the guard.  The node task may hold the guard only if the reader
\* took it without waiting; the guard the reader drops is its own.
ReaderUnlock ==
    /\ tasks.reader = "read"
    /\ tasks' = [tasks EXCEPT !.reader = "idle",
                    !.lock = IF tasks.node = "idle" THEN "free" ELSE "node"]
    /\ UNCHANGED <<dag, pool, uuid, last, physics, now, seq, released, dags,
                   inflight, authored, ingested, gates, app_rx, c_cell>>

NextLock ==
    \/ \E payload \in CommandPayloads : LockCreateEvent(payload)
    \/ \E batch \in PeerBatches : LockHandleGossip(batch)
    \/ LockedInsert
    \/ LockedEdges
    \/ LockedHeads
    \/ NodeUnlock
    \/ ReaderLock
    \/ ReaderRead
    \/ ReaderUnlock

SpecLock == InitLock /\ [][NextLock]_vars

(***************************************************************************)
(* Claims about the lock, checked under SpecLock.                          *)
(***************************************************************************)
\* The newest node of d is a head of d: the admit that added it has run to
\* its end.
HeadsUpdated(d) ==
    d.graph.nodes[Len(d.graph.nodes)].hash \in Range(d.heads)

\* C26: admits are atomic for readers of heads: a task that reads the DAG
\* through the lock observes the complete state before an admit or the
\* complete state after it, never a state in which the node or its edges
\* are present but heads has not been updated.
C26_AdmitAtomic ==
    (last.op = "read" /\ tasks.reader = "read") =>
        (last.seen = last.committed /\ HeadsUpdated(last.seen))

\* The reader has read the DAG after two completed admits while the node
\* task waits for the lock with an event not yet admitted.
C26_Witness ==
    /\ tasks.reader = "read"
    /\ last.op = "read"
    /\ Len(last.seen.graph.nodes) >= 3
    /\ last.seen.graph.edges # {}
    /\ authored < MaxHandled

\* C33: immediately after a replica authors an event locally, the
\* replica's heads is exactly the one-element sequence holding the new
\* event's hash, whatever heads held before, including repeated entries.
C33_AuthoringCollapsesHeads ==
    (tasks.op = "create_event" /\ tasks.node = "locked" /\ tasks.queue = <<>>) =>
        dag.heads = <<tasks.event.hash>>

\* create_event has admitted an event built on heads that held the same
\* hash twice.
C33_Witness ==
    /\ tasks.op = "create_event"
    /\ tasks.node = "locked"
    /\ tasks.queue = <<>>
    /\ \E i, j \in DOMAIN tasks.snapshot :
          i # j /\ tasks.snapshot[i] = tasks.snapshot[j]

(***************************************************************************)
(* SpecAuthor: one SpacetimeDAG whose callers do not hold a lock from the  *)
(* snapshot of heads to the admit, as in tests::concurrent_heads_are_      *)
(* tracked (dag.rs 143-177): events are built on the heads of the moment   *)
(* and admitted later, while other built events and events received from   *)
(* a peer are admitted in between.                                         *)
(***************************************************************************)
\* The events a peer sends, and the events received again.
Inbound(d) == {PeerGenesis, PeerEvent} \cup Range(d.graph.nodes)

InitAuthor ==
    /\ dag = SpacetimeDAG_new(1)
    /\ pool = {}
    /\ uuid = NumNodes + 4
    /\ authored = 0
    /\ last = [op |-> "new", event |-> Genesis(1), res |-> "Ok", since |-> {}]
    /\ IdleGate
    /\ dags = <<>>
    /\ inflight = {}
    /\ IdleNet
    /\ IdleLight
    /\ IdleTasks

\* The snapshot: parents = heads, and Event::new (node.rs 100, 110; dag.rs
\* 145-171).  The built event waits with the set of hashes admitted since
\* its snapshot.
AuthorSnapshot(payload) ==
    /\ authored < MaxAuthored
    /\ pool' = pool \cup
          {[event |-> Event_new(uuid, Range(dag.heads), CommandCoords(1), payload),
            since |-> {}]}
    /\ uuid' = uuid + 1
    /\ authored' = authored + 1
    /\ UNCHANGED <<dag, last, physics, now, seq, released, dags, inflight,
                   ingested, gates, app_rx, c_cell, tasks>>

\* add_event of an event received from a peer.
AuthorIngest(event) ==
    /\ Len(dag.graph.nodes) < MaxNodes
    /\ LET r == add_event(dag, event)
       IN  /\ dag' = r.dag
           /\ pool' = IF r.res = "Ok"
                      THEN {[p EXCEPT !.since = @ \cup {event.hash}] : p \in pool}
                      ELSE pool
           /\ last' = [op |-> "ingest", event |-> event, res |-> r.res,
                       since |-> {}]
    /\ UNCHANGED <<uuid, physics, now, seq, released, dags, inflight, authored,
                   ingested, gates, app_rx, c_cell, tasks>>

\* add_event of a built event (node.rs 113; dag.rs 173-174).
AuthorAdmit(p) ==
    /\ Len(dag.graph.nodes) < MaxNodes
    /\ LET r == add_event(dag, p.event)
       IN  /\ dag' = r.dag
           /\ pool' = IF r.res = "Ok"
                      THEN {[q EXCEPT !.since = @ \cup {p.event.hash}] :
                               q \in pool \ {p}}
                      ELSE pool \ {p}
           /\ last' = [op |-> "admit", event |-> p.event, res |-> r.res,
                       since |-> p.since]
    /\ UNCHANGED <<uuid, physics, now, seq, released, dags, inflight, authored,
                   ingested, gates, app_rx, c_cell, tasks>>

NextAuthor ==
    \/ \E payload \in CommandPayloads : AuthorSnapshot(payload)
    \/ \E event \in Inbound(dag) : AuthorIngest(event)
    \/ \E p \in pool : AuthorAdmit(p)

SpecAuthor == InitAuthor /\ [][NextAuthor]_vars

(***************************************************************************)
(* Claims about authoring without the lock, checked under SpecAuthor.      *)
(***************************************************************************)
\* No resident event of d lists hash h among its parents.
Childless(d, h) == \A e \in Range(d.graph.nodes) : h \notin e.parents

\* C31: authoring tolerates interleaved ingest: if other events are admitted
\* to the DAG between the snapshot of heads into parents and the admit of
\* the authored event, the admit still succeeds, and afterwards the authored
\* event and the interleaved events that nobody parents are heads.
C31_InterleavedIngest ==
    last.op = "admit" =>
        /\ last.res = "Ok"
        /\ last.event.hash \in Range(dag.heads)
        /\ \A h \in last.since : Childless(dag, h) => h \in Range(dag.heads)

\* An authored event was admitted after two other events, admitted since
\* its snapshot, that it does not parent: one that a later event parents
\* and one that nobody parents.
C31_Witness ==
    /\ last.op = "admit"
    /\ \E h1, h2 \in last.since \ last.event.parents :
          /\ ~Childless(dag, h1)
          /\ Childless(dag, h2)
    /\ Cardinality(Range(dag.heads)) >= 2

====
